---- MODULE Spec2Model ----
(***************************************************************************)
(* PredictiveRolls: the betting orchestrator (src/src/main.rs), the site   *)
(* adapters (src/src/sites/crypto_games.rs, free_bitco_in.rs), the         *)
(* simulated site (src/src/sites/fake_test.rs) and the DuckDice API client *)
(* of the Android bridge (src/android-lib/src/duckdice_api.rs).            *)
(*                                                                         *)
(* Numbers.  f32/f64 amounts are modelled as integers:                     *)
(*   - amounts of the CryptoGames adapter in units of 1 PLAY (the          *)
(*     adapter's fixed currency), amounts of the FreeBitcoIn adapter in    *)
(*     satoshi (1e-8 BTC, the precision "{:.8}" of the stake it sends);    *)
(*   - multipliers and chances in hundredths (2.0 is 200), the precision   *)
(*     "{:.2}" at which a multiplier is sent.                              *)
(***************************************************************************)
EXTENDS Integers, Sequences, FiniteSets, TLC

VARIABLES
    pc,               \* position of main: login, loop, await, returned, halted, crashed
    site,             \* which implementation of Site the Game owns
    use_fake_betting, \* FreeBitcoIn::use_fake_betting
    rolls,            \* Site::rolls
    current_bet,      \* Site::current_bet
    multiplier,       \* Site::multiplier
    balance,          \* user_stats.balance
    profit,           \* Site::profit
    stratBalance,     \* the bankroll held by the adapter's strategy
    history,          \* Site::history, a sequence of bet results
    storage,          \* fake_test::SERVER_STORAGE
    prediction,       \* Game::prediction
    confidence,       \* Game::confidence
    args,             \* the (prediction, confidence) the current do_bet was called with
    decision,         \* what strategy.get_next_bet returned in the current do_bet
    sent,             \* the bet request submitted by the current do_bet
    sizedBy,          \* whether the current do_bet took the warm-up branch or the strategy's sizing
    reply,            \* the HTTP reply the current do_bet received
    ret,              \* what the current do_bet returned to Game::bet
    loginRet,         \* what login() returned
    loginReply,       \* the reply login() received
    haltErr,          \* the error main returned
    loginCalls,       \* number of login() calls made
    okCount,          \* number of do_bet calls that returned Ok
    onWinCalls,       \* number of site.on_win calls made
    onLoseCalls,      \* number of site.on_lose calls made
    strategyFed,      \* number of results forwarded to the strategy
    predictorCalls,   \* number of model.forward calls made
    outstanding,      \* bet requests issued and not yet answered
    http,             \* DuckDice API: the response under inspection
    apiOp,            \* DuckDice API: the client method that ran
    apiOut,           \* DuckDice API: what the method returned
    rollIn,           \* roll functions: the arguments of gen_fake_bet
    rollOut,          \* roll functions: what each call on rollIn returned
    published,        \* simulated site: the hashes its responses have returned
    revealed,         \* simulated site: the last response and where its number came from
    derived,          \* simulated site: the seed behind current_roll and next_roll
    rollLog,          \* simulated site: the (seed, nonce) of every roll generated
    resets,           \* simulated site: number of reset_server_seed calls
    encIn,            \* feature encoding: a string and a history to encode
    encOut,           \* feature encoding: what each encoder returned
    config,           \* configuration: the TomlConfig under validation
    validated,        \* configuration: what validate() returned
    startup,          \* configuration: how main went on after validate()
    appState,         \* JNI bridge: the AppState behind STATE
    lock,             \* JNI bridge: the thread holding STATE's mutex, 0 for none
    jniCall,          \* JNI bridge: the call that took the lock last
    betCalls,         \* JNI bridge: placeBet calls entered since the last cleanup
    wonCalls          \* JNI bridge: placeBet calls that returned 1 since the last cleanup

vars == <<pc, site, use_fake_betting, rolls, current_bet, multiplier, balance,
          profit, stratBalance, history, storage, prediction, confidence,
          args, decision, sent, sizedBy, reply, ret, loginRet, loginReply, haltErr, loginCalls,
          okCount,
          onWinCalls, onLoseCalls, strategyFed, predictorCalls, outstanding,
          http, apiOp, apiOut, rollIn, rollOut, published, revealed, derived,
          rollLog, resets, encIn, encOut, config, validated, startup,
          appState, lock, jniCall, betCalls, wonCalls>>

gameVars == <<pc, site, use_fake_betting, rolls, current_bet, multiplier,
              balance, profit, stratBalance, history, storage, prediction,
              confidence, args, decision, sent, sizedBy, reply, ret, loginRet, loginReply, haltErr,
              loginCalls, okCount, onWinCalls, onLoseCalls, strategyFed, predictorCalls,
              outstanding>>

apiVars == <<http, apiOp, apiOut>>

\* the state of the functions exercised on their own
unitVars == <<rollIn, rollOut, published, revealed, derived, rollLog, resets,
              encIn, encOut, config, validated, startup,
              appState, lock, jniCall, betCalls, wonCalls>>

jniVars == <<appState, lock, jniCall, betCalls, wonCalls>>

cfgVars == <<config, validated, startup>>

encVars == <<encIn, encOut>>

rollVars == <<rollIn, rollOut>>

siteVars == <<published, revealed, derived, rollLog, resets>>

(***************************************************************************)
(* Bounds of the model.                                                    *)
(***************************************************************************)
MaxRolls == 12
MaxHeaderLen == 3

(***************************************************************************)
(* Program constants.                                                      *)
(***************************************************************************)
HistorySize == 10
PlayMinBet == 20
CryptoGamesMinMultiplier == 102
CryptoGamesMaxMultiplier == 990000
FreeBitcoInMinMultiplier == 101
FreeBitcoInMaxMultiplier == 475000
FreeBitcoInMinChance == 1
FreeBitcoInMaxChance == 5000
FreeBitcoInWarmupBet == 1
NeutralMultiplier == 200
FreeBitcoInDefaultBalance == 400
NoStratDefaultBalance == 2000000
FreeBitcoInDefaultBet == 2
RollRange == 10000
DefaultRetryAfter == 60
RateLimitStatus == 429

NoValue == [kind |-> "none"]

NoReply == [kind |-> "none", status |-> 0, body |-> "none"]

(***************************************************************************)
(* Arithmetic helpers.                                                     *)
(***************************************************************************)
Min(a, b) == IF a <= b THEN a ELSE b

Max(a, b) == IF a >= b THEN a ELSE b

Abs(a) == IF a < 0 THEN -a ELSE a

\* f32::clamp(lo, hi)
Clamp(x, lo, hi) == IF x < lo THEN lo ELSE IF x > hi THEN hi ELSE x

\* a / b rounded to the nearest integer (a >= 0, b > 0)
RoundDiv(a, b) == (2 * a + b) \div (2 * b)

(***************************************************************************)
(* The sites a Game can own.  CryptoGames and FreeBitcoIn are modelled     *)
(* from their source; DuckDiceIo (sites/duck_dice.rs) is the adapter main  *)
(* constructs, and its source is not part of src/.                         *)
(***************************************************************************)
CodeSites == {"CryptoGames", "FreeBitcoIn"}

Sites == CodeSites \cup {"DuckDiceIo"}

\* BetError
BetErrors == {"EmptyReply", "Failed", "LoginFailed", "ConfigError",
              "ModelError", "ReqwestError"}

Ok(v) == [kind |-> "Ok", res |-> v]

Err(e) == [kind |-> "Err", err |-> e]

Panic == [kind |-> "panic"]

(***************************************************************************)
(* Strategy.  The adapters hold a Box<dyn Strategy>; get_next_bet returns  *)
(* (current_bet, multiplier, chance, high) and the trait constrains none   *)
(* of them, so the model draws the decision from these values: a stake     *)
(* under the minimum bet, one equal to it and a large one; a multiplier    *)
(* under every site's minimum, one inside the bounds and one over every    *)
(* site's maximum.                                                         *)
(***************************************************************************)
StakeChoices == {1, 20, 500}

MultiplierChoices == {100, 300, 1000000}

GetNextBet == [stake : StakeChoices, mult : MultiplierChoices, high : BOOLEAN]

(***************************************************************************)
(* The predictor: model.forward has 10 output classes; the prediction is   *)
(* the arg-max class times 100 and the confidence that class's output      *)
(* times 100.                                                              *)
(***************************************************************************)
Forecasts == {[prediction |-> 0, confidence |-> 35],
              [prediction |-> 500, confidence |-> 60],
              [prediction |-> 900, confidence |-> 90]}

(***************************************************************************)
(* History window shared by the adapters: push, then drop index 0 when     *)
(* the length exceeds history_size.                                        *)
(***************************************************************************)
HistoryPushOffByOne(h, x) ==
    LET pushed == Append(h, x)
    IN  IF Len(pushed) >= HistorySize THEN Tail(pushed) ELSE pushed

HistoryPush(h, x) ==
    LET pushed == Append(h, x)
    IN  IF Len(pushed) > HistorySize THEN Tail(pushed) ELSE pushed

\* the warm-up test of do_bet: history.len() < history_size
WarmupOffByOne(h) == Len(h) + 1 < HistorySize

Warmup(h) == Len(h) < HistorySize

\* the branch of do_bet's sizing that the history selects
SizedBy(h) == IF Warmup(h) THEN "warmup" ELSE "strategy"

(***************************************************************************)
(* CryptoGames::do_bet up to the request: the strategy's decision, the     *)
(* warm-up defaults, the clamp of the multiplier and the floor of the      *)
(* stake.  d is what get_next_bet returned, h the adapter's history.       *)
(***************************************************************************)
CryptoGamesSizing(d, h) ==
    LET bet == IF Warmup(h) THEN PlayMinBet ELSE d.stake
        mul == IF Warmup(h) THEN NeutralMultiplier ELSE d.mult
    IN  [stake |-> Max(bet, PlayMinBet),
         mult  |-> Clamp(mul, CryptoGamesMinMultiplier, CryptoGamesMaxMultiplier),
         high  |-> d.high]

(***************************************************************************)
(* FreeBitcoIn::do_bet up to the request.  The multiplier the strategy     *)
(* returned is stored and then overwritten by one computed from the        *)
(* prediction p: chance = 55 * (1 - |p - 5000| / 5000) clamped to          *)
(* [0.01, 50], multiplier = 1 / (chance / 100) clamped to [1.01, 4750].    *)
(***************************************************************************)
FreeBitcoInChance(p) ==
    Clamp(RoundDiv(5500 * (5000 - Abs(p - 5000)), 5000),
          FreeBitcoInMinChance, FreeBitcoInMaxChance)

FreeBitcoInMultiplier(p) ==
    Clamp(RoundDiv(1000000, FreeBitcoInChance(p)),
          FreeBitcoInMinMultiplier, FreeBitcoInMaxMultiplier)

FreeBitcoInSizing(d, p, h) ==
    [stake |-> IF Warmup(h) THEN FreeBitcoInWarmupBet ELSE d.stake,
     mult  |-> IF Warmup(h) THEN NeutralMultiplier ELSE FreeBitcoInMultiplier(p),
     high  |-> d.high]

(***************************************************************************)
(* DuckDiceIo::do_bet up to the request, from the specification: the       *)
(* strategy's decision, replaced by the defaults before the window is full.*)
(***************************************************************************)
DuckDiceSizing(d, h) ==
    [stake |-> d.stake,
     mult  |-> IF Warmup(h) THEN NeutralMultiplier ELSE d.mult,
     high  |-> d.high]

Sizing(s, d, p, h) ==
    CASE s = "CryptoGames" -> CryptoGamesSizing(d, h)
      [] s = "FreeBitcoIn" -> FreeBitcoInSizing(d, p, h)
      [] OTHER             -> DuckDiceSizing(d, h)

(***************************************************************************)
(* The bankroll an adapter compares the stake with after the request:      *)
(* strategy.get_balance() in CryptoGames, user_stats.balance in            *)
(* FreeBitcoIn.                                                            *)
(***************************************************************************)
Bankroll(s, bal, strat) == IF s = "CryptoGames" THEN strat ELSE bal

(***************************************************************************)
(* Replies of the sites.                                                   *)
(*   login: CryptoGames answers the balance request; FreeBitcoIn answers   *)
(*   the login form with a colon-separated record of `fields` fields and   *)
(*   the user-stats request with a JSON object.                            *)
(*   bet: a transport error, or an HTTP reply with a status and a body.    *)
(***************************************************************************)
LoginBalances == {0, 100}

LoginReplies(s) ==
    CASE s = "CryptoGames" ->
            {[kind |-> "neterr"]} \cup
            {[kind |-> "balance", balance |-> b] : b \in LoginBalances}
      [] s = "FreeBitcoIn" ->
            {[kind |-> "neterr"]} \cup
            {[kind |-> "form", fields |-> n, stats |-> "neterr", balance |-> 0] :
                n \in {1, 4, 5}} \cup
            {[kind |-> "form", fields |-> 5, stats |-> "badjson", balance |-> 0]} \cup
            {[kind |-> "form", fields |-> 5, stats |-> "ok", balance |-> b] :
                b \in LoginBalances}
      [] OTHER ->
            {[kind |-> "neterr"], [kind |-> "refused"]} \cup
            {[kind |-> "balance", balance |-> b] : b \in LoginBalances}

\* CryptoGames::login: Ok with the balance, or the reqwest error
CryptoGamesLogin(r) ==
    IF r.kind = "balance"
    THEN [out |-> Ok(0), balance |-> r.balance, strat |-> r.balance]
    ELSE [out |-> Err("ReqwestError"), balance |-> balance, strat |-> stratBalance]

\* FreeBitcoIn::login
FreeBitcoInLogin(r) ==
    LET same(o) == [out |-> o, balance |-> balance, strat |-> stratBalance]
    IN  IF use_fake_betting THEN same(Ok(0))
        ELSE IF r.kind = "neterr" THEN same(Err("ReqwestError"))
        ELSE IF r.fields < 4 THEN same(Err("LoginFailed"))
        ELSE IF r.fields < 5 THEN same(Panic)
        ELSE IF r.stats = "neterr" THEN same(Err("ReqwestError"))
        ELSE IF r.stats = "badjson" THEN same(Panic)
        ELSE [out |-> Ok(0), balance |-> r.balance, strat |-> r.balance]

\* DuckDiceIo::login, from the specification
DuckDiceLogin(r) ==
    CASE r.kind = "balance" ->
            [out |-> Ok(0), balance |-> r.balance, strat |-> r.balance]
      [] r.kind = "refused" ->
            [out |-> Err("LoginFailed"), balance |-> balance, strat |-> stratBalance]
      [] OTHER ->
            [out |-> Err("ReqwestError"), balance |-> balance, strat |-> stratBalance]

SiteLogin(s, r) ==
    CASE s = "CryptoGames" -> CryptoGamesLogin(r)
      [] s = "FreeBitcoIn" -> FreeBitcoInLogin(r)
      [] OTHER             -> DuckDiceLogin(r)

BetAmounts == {20}

BetReplies(s) ==
    CASE s = "CryptoGames" ->
            {[kind |-> "neterr", status |-> 0, body |-> "none", win |-> FALSE, amount |-> 0]} \cup
            {[kind |-> "http", status |-> 200, body |-> "bet", win |-> w, amount |-> a] :
                w \in BOOLEAN, a \in BetAmounts} \cup
            {[kind |-> "http", status |-> st, body |-> b, win |-> FALSE, amount |-> 0] :
                st \in {200, RateLimitStatus}, b \in {"other_json", "not_json"}}
      [] s = "FreeBitcoIn" ->
            {[kind |-> "neterr", status |-> 0, body |-> "none", win |-> FALSE, amount |-> 0]} \cup
            {[kind |-> "http", status |-> 200, body |-> "bet", win |-> w, amount |-> a] :
                w \in BOOLEAN, a \in BetAmounts} \cup
            {[kind |-> "http", status |-> st, body |-> b, win |-> FALSE, amount |-> 0] :
                st \in {200, RateLimitStatus},
                b \in {"fields_lt_22", "fields_22", "non_numeric"}}
      [] OTHER ->
            {[kind |-> "neterr", status |-> 0, body |-> "none", win |-> FALSE, amount |-> 0],
             [kind |-> "http", status |-> 200, body |-> "empty", win |-> FALSE, amount |-> 0],
             [kind |-> "http", status |-> RateLimitStatus, body |-> "error", win |-> FALSE,
              amount |-> 0]} \cup
            {[kind |-> "http", status |-> 200, body |-> "bet", win |-> w, amount |-> a] :
                w \in BOOLEAN, a \in BetAmounts}

(***************************************************************************)
(* BetResult.  A result is identified by its ordinal among the do_bet      *)
(* calls that returned Ok; win_amount is signed as the conversion leaves   *)
(* it: CryptoGames copies the site's profit (negative for a lost bet),     *)
(* FreeBitcoIn the site's amount_won.                                      *)
(***************************************************************************)
CryptoGamesBetResult(r, id) ==
    LET siteProfit == IF r.win THEN r.amount ELSE -r.amount
    IN  [id |-> id, result |-> siteProfit > 0, win_amount |-> siteProfit]

FreeBitcoInBetResult(r, id) ==
    [id |-> id, result |-> r.win, win_amount |-> r.amount]

DuckDiceBetResult(r, id) ==
    [id |-> id, result |-> r.win, win_amount |-> IF r.win THEN r.amount ELSE -r.amount]

(***************************************************************************)
(* do_bet from the reply on: parse, push into the history, compare the     *)
(* stake with the bankroll, return.  bet is the adapter's current_bet, h   *)
(* its history, bank the bankroll it compares with.                        *)
(***************************************************************************)
InsufficientPanics(bet, bank) == bet > bank

CryptoGamesDoBetReply(r, id, bet, bank, h) ==
    IF r.kind = "neterr" \/ r.body = "not_json"
    THEN [ret |-> Err("ReqwestError"), history |-> h]
    ELSE IF r.body # "bet"
    THEN [ret |-> Panic, history |-> h]
    ELSE IF InsufficientPanics(bet, bank)
    THEN [ret |-> Panic, history |-> HistoryPush(h, id)]
    ELSE [ret |-> Ok(CryptoGamesBetResult(r, id)), history |-> HistoryPush(h, id)]

FreeBitcoInDoBetReply(r, id, bet, bank, h) ==
    IF r.kind = "neterr"
    THEN [ret |-> Err("ReqwestError"), history |-> h]
    ELSE IF r.body # "bet"
    THEN [ret |-> Panic, history |-> h]
    ELSE IF InsufficientPanics(bet, bank)
    THEN [ret |-> Panic, history |-> HistoryPush(h, id)]
    ELSE [ret |-> Ok(FreeBitcoInBetResult(r, id)), history |-> HistoryPush(h, id)]

\* DuckDiceIo::do_bet from the reply on, from the specification
DuckDiceDoBetReply(r, id, bet, bank, h) ==
    CASE r.kind = "neterr" -> [ret |-> Err("ReqwestError"), history |-> h]
      [] r.body = "empty"  -> [ret |-> Err("EmptyReply"), history |-> h]
      [] r.body = "error"  -> [ret |-> Err("Failed"), history |-> h]
      [] OTHER -> [ret |-> Ok(DuckDiceBetResult(r, id)), history |-> HistoryPush(h, id)]

SiteDoBetReply(s, r, id, bet, bank, h) ==
    CASE s = "CryptoGames" -> CryptoGamesDoBetReply(r, id, bet, bank, h)
      [] s = "FreeBitcoIn" -> FreeBitcoInDoBetReply(r, id, bet, bank, h)
      [] OTHER             -> DuckDiceDoBetReply(r, id, bet, bank, h)

(***************************************************************************)
(* Roll functions.  Seeds and digests.                                     *)
(*   A server seed or a client seed is one of a few named strings.         *)
(*   SHA-256 is kept symbolic (the hash of a seed is a value that names    *)
(*   the seed, so two seeds never share a hash).  SHA-512 and HMAC-SHA256  *)
(*   are not computed: each is replaced by a fixed function of exactly the *)
(*   bytes the code feeds it, which returns a hex digest (a sequence of    *)
(*   128 hex digits, each a number 0..15) or a 32-bit tag.                 *)
(***************************************************************************)
Seeds == {"seedA", "seedB", "seedC"}

ClientSeeds == {"clientA", "clientB"}

NoSeed == ""

SeedCode(s) ==
    CASE s = "seedA" -> 1 [] s = "seedB" -> 2 [] s = "seedC" -> 3 [] OTHER -> 0

ClientCode(c) == CASE c = "clientA" -> 0 [] c = "clientB" -> 1 [] OTHER -> 2

\* hex::encode(Sha256(seed)); the empty string is String::default()
NoHash == ""

Sha256Hex(seed) ==
    CASE seed = "seedA" -> "sha256(seedA)"
      [] seed = "seedB" -> "sha256(seedB)"
      [] seed = "seedC" -> "sha256(seedC)"
      [] OTHER          -> "sha256()"

\* hex::encode of a SHA-512 result has 128 characters
DigestLen == 128

\* &hash[index..=index + 4]
WindowLen == 5

\* while lucky > 1000000
LuckyLimit == 1000000

\* sample windows: 0x00000, 0x1E240 (123456), 0xF423F (999999),
\* 0xF4240 (1000000); 0xF4241 (1000001), 0xFFFFF (1048575)
LowWindows == <<<<0, 0, 0, 0, 0>>, <<1, 14, 2, 4, 0>>, <<15, 4, 2, 3, 15>>,
                <<15, 4, 2, 4, 0>>>>

HighWindows == <<<<15, 4, 2, 4, 1>>, <<15, 15, 15, 15, 15>>>>

\* the digest that starts with k windows `high`, goes on with the window
\* `low` and ends in zeros
Digest(k, high, low) ==
    [i \in 1..DigestLen |->
        IF i <= k * WindowLen THEN high[((i - 1) % WindowLen) + 1]
        ELSE IF i <= (k + 1) * WindowLen THEN low[i - k * WindowLen]
        ELSE 0]

LeadingHigh == {0, 1, 2, 24, 25}

Digests ==
    {Digest(k, HighWindows[h], LowWindows[l]) :
        k \in LeadingHigh, h \in 1..Len(HighWindows), l \in 1..Len(LowWindows)}

\* u32::from_str_radix(w, 16)
RECURSIVE FromStrRadix16(_, _)
FromStrRadix16(w, acc) ==
    IF w = << >> THEN acc ELSE FromStrRadix16(Tail(w), 16 * acc + Head(w))

(***************************************************************************)
(* The scan of fake_test::gen_fake_bet: lucky starts above the limit, and  *)
(* while it is above the limit the next window of 5 hex digits is parsed.  *)
(* A window that reaches past the end of the hash is a slice out of range, *)
(* which panics: the scan returns -1 for it.                               *)
(***************************************************************************)
RECURSIVE LuckyScanHexLimit(_, _)
LuckyScanHexLimit(hash, index) ==
    IF index + WindowLen > Len(hash) THEN -1
    ELSE LET lucky == FromStrRadix16(SubSeq(hash, index + 1, index + WindowLen), 0)
         IN  IF lucky >= 1048576 THEN LuckyScanHexLimit(hash, index + WindowLen) ELSE lucky

RECURSIVE LuckyScan(_, _)
LuckyScan(hash, index) ==
    IF index + WindowLen > Len(hash) THEN -1
    ELSE LET lucky == FromStrRadix16(SubSeq(hash, index + 1, index + WindowLen), 0)
         IN  IF lucky > LuckyLimit THEN LuckyScan(hash, index + WindowLen) ELSE lucky

\* let number = lucky % 10000
LuckyNumber(hash) ==
    LET lucky == LuckyScan(hash, 0)
    IN  IF lucky < 0 THEN Panic ELSE Ok(lucky % RollRange)

\* SHA-512 of server_seed ++ client_seed ++ nonce.to_string(), hex encoded
Sha512Hex(seed, client, nonce) ==
    Digest(nonce % 3, HighWindows[(ClientCode(client) % 2) + 1],
           LowWindows[((SeedCode(seed) + nonce) % 4) + 1])

\* the first four bytes, little endian, of HMAC-SHA256 keyed with the
\* server seed over server_seed ++ client_seed ++ nonce.to_be_bytes()
HmacSha256U32(seed, client, nonce) ==
    SeedCode(seed) * 1000003 + ClientCode(client) * 7919 + nonce * 104729

(***************************************************************************)
(* fake_test::gen_fake_bet.  A server seed is generated when the nonce of  *)
(* the storage is 0 (fresh is the string the generator returns); the       *)
(* number is scanned from the SHA-512 of seed, client seed and nonce.      *)
(* Returns (number, server_seed_hash, nonce) and the storage it leaves.    *)
(***************************************************************************)
FakeStorageDefault ==
    [server_seed_hash_previous_roll |-> NoHash,
     server_seed_hash_next_roll     |-> NoHash,
     current_seed_hash              |-> NoHash,
     previous_nonce |-> 0,
     current_nonce  |-> 0,
     next_nonce     |-> 0,
     previous_roll  |-> 0,
     current_roll   |-> 0,
     next_roll      |-> 0,
     server_seed    |-> NoSeed]

GenFakeBetKeepsSeed(st, client_seed, fresh) ==
    LET seed == IF st.server_seed = NoSeed THEN fresh ELSE st.server_seed
        number == LuckyNumber(Sha512Hex(seed, client_seed, st.current_nonce))
    IN  [storage          |-> [st EXCEPT !.server_seed = seed],
         number           |-> number,
         server_seed_hash |-> Sha256Hex(seed),
         nonce            |-> st.current_nonce]

GenFakeBet(st, client_seed, fresh) ==
    LET seed == IF st.current_nonce = 0 THEN fresh ELSE st.server_seed
        number == LuckyNumber(Sha512Hex(seed, client_seed, st.current_nonce))
    IN  [storage          |-> [st EXCEPT !.server_seed = seed],
         number           |-> number,
         server_seed_hash |-> Sha256Hex(seed),
         nonce            |-> st.current_nonce]

(***************************************************************************)
(* dataset::gen_fake_bet(server_storage, _client_seed, nonce).  The server *)
(* seed and the client seed are drawn inside the call (freshSeed,          *)
(* freshClient); the number is the HMAC tag modulo 10000.  Returns         *)
(* (number, server_seed_hash, client_seed, server_storage.current_nonce).  *)
(***************************************************************************)
DatasetGenFakeBet(st, client_seed, nonce, freshSeed, freshClient) ==
    [storage          |-> st,
     number           |-> Ok(HmacSha256U32(freshSeed, freshClient, nonce) % RollRange),
     server_seed_hash |-> Sha256Hex(freshSeed),
     client_seed      |-> freshClient,
     nonce            |-> st.current_nonce]

(***************************************************************************)
(* The simulated site.  free_bitcoin_fake_bet and duckdice_fake_bet share  *)
(* the same step on SERVER_STORAGE: after gen_fake_bet the hashes, the     *)
(* nonces and the rolls shift by one place and the new number becomes      *)
(* next_roll.  The bet is settled against current_roll.  g is what         *)
(* gen_fake_bet returned.                                                  *)
(***************************************************************************)
ShiftStorage(g) ==
    [g.storage EXCEPT
        !.server_seed_hash_previous_roll = g.storage.current_seed_hash,
        !.current_seed_hash = g.storage.server_seed_hash_next_roll,
        !.server_seed_hash_next_roll = g.server_seed_hash,
        !.previous_nonce = g.storage.current_nonce,
        !.next_nonce = g.storage.current_nonce + 1,
        !.current_nonce = g.storage.current_nonce + 1,
        !.previous_roll = g.storage.current_roll,
        !.current_roll = g.storage.next_roll,
        !.next_roll = g.number.res]

\* (10_000. * ((97.50 / multiplier) / 100.)) as u32, mult in hundredths
FakeTarget(mult) == (RollRange * 9750) \div (mult * 100)

FakeResult(high, mult, roll) ==
    \/ high /\ roll > RollRange - FakeTarget(mult)
    \/ ~high /\ roll < FakeTarget(mult)

FreeBitcoinFakeBet(high, client_seed, stake, mult, st, fresh) ==
    LET next == ShiftStorage(GenFakeBet(st, client_seed, fresh))
        result == FakeResult(high, mult, next.current_roll)
    IN  [storage |-> next,
         win     |-> result,
         amount  |-> IF result THEN (stake * (mult - 100)) \div 100 ELSE stake,
         rolled_number                  |-> next.current_roll,
         server_seed_hash_next_roll     |-> next.server_seed_hash_next_roll,
         server_seed_hash_previous_roll |-> next.server_seed_hash_previous_roll,
         nonce_next_roll                |-> next.current_nonce,
         previous_nonce                 |-> next.previous_nonce]

DuckdiceFakeBet(high, client_seed, stake, mult, st, fresh) ==
    LET next == ShiftStorage(GenFakeBet(st, client_seed, fresh))
        result == FakeResult(high, mult, next.current_roll)
    IN  [storage |-> next,
         win     |-> result,
         amount  |-> IF result THEN (stake * (mult - 100)) \div 100 ELSE -stake,
         number        |-> next.current_roll,
         hash          |-> next.current_seed_hash,
         previous_hash |-> next.server_seed_hash_previous_roll,
         nonce         |-> next.current_nonce]

\* reset_server_seed
ResetServerSeed(st) == [st EXCEPT !.current_nonce = 0]

\* FreeBitcoIn::default: client_seed
FreeBitcoInClientSeed == "clientA"

(***************************************************************************)
(* Strategy bookkeeping, from the specification: on_win adds the amount    *)
(* won to the bankroll, on_lose takes the amount lost from it.             *)
(***************************************************************************)
StrategyOnWin(bank, amount) == bank + amount

StrategyOnLose(bank, amount) == bank - amount

(***************************************************************************)
(* Site::on_win and Site::on_lose.  st is [balance, profit, strat, fed],   *)
(* res the BetResult, h the adapter's history.                             *)
(***************************************************************************)
CryptoGamesOnWin(st, res, h) ==
    LET feed == Len(h) >= HistorySize
    IN  [balance |-> st.balance + res.win_amount,
         profit  |-> st.profit + res.win_amount,
         strat   |-> IF feed THEN StrategyOnWin(st.strat, res.win_amount) ELSE st.strat,
         fed     |-> IF feed THEN st.fed + 1 ELSE st.fed]

CryptoGamesOnLose(st, res, h) ==
    LET feed == Len(h) >= HistorySize
        lost == -res.win_amount
    IN  [balance |-> st.balance - lost,
         profit  |-> st.profit - lost,
         strat   |-> IF feed THEN StrategyOnLose(st.strat, lost) ELSE st.strat,
         fed     |-> IF feed THEN st.fed + 1 ELSE st.fed]

FreeBitcoInOnWin(st, res, h) ==
    [balance |-> st.balance + res.win_amount,
     profit  |-> st.profit + res.win_amount,
     strat   |-> StrategyOnWin(st.strat, res.win_amount),
     fed     |-> st.fed + 1]

FreeBitcoInOnLoseKeepsProfit(st, res, h) ==
    [balance |-> st.balance - res.win_amount,
     profit  |-> st.profit,
     strat   |-> StrategyOnLose(st.strat, res.win_amount),
     fed     |-> st.fed + 1]

FreeBitcoInOnLose(st, res, h) ==
    [balance |-> st.balance - res.win_amount,
     profit  |-> st.profit - res.win_amount,
     strat   |-> StrategyOnLose(st.strat, res.win_amount),
     fed     |-> st.fed + 1]

\* DuckDiceIo::on_win and on_lose, from the specification
DuckDiceOnWin(st, res, h) ==
    [balance |-> st.balance + res.win_amount,
     profit  |-> st.profit + res.win_amount,
     strat   |-> StrategyOnWin(st.strat, res.win_amount),
     fed     |-> st.fed + 1]

DuckDiceOnLose(st, res, h) ==
    [balance |-> st.balance + res.win_amount,
     profit  |-> st.profit + res.win_amount,
     strat   |-> StrategyOnLose(st.strat, -res.win_amount),
     fed     |-> st.fed + 1]

SiteOnWin(s, st, res, h) ==
    CASE s = "CryptoGames" -> CryptoGamesOnWin(st, res, h)
      [] s = "FreeBitcoIn" -> FreeBitcoInOnWin(st, res, h)
      [] OTHER             -> DuckDiceOnWin(st, res, h)

SiteOnLose(s, st, res, h) ==
    CASE s = "CryptoGames" -> CryptoGamesOnLose(st, res, h)
      [] s = "FreeBitcoIn" -> FreeBitcoInOnLose(st, res, h)
      [] OTHER             -> DuckDiceOnLose(st, res, h)

(***************************************************************************)
(* Game::bet after do_bet returned.                                        *)
(*   Route: the match on do_bet's result (skip the iteration, halt with    *)
(*   the error, or settle the result).                                     *)
(*   Callback: which of on_win / on_lose the result is given to.           *)
(*   ConsultsPredictor: the test before the model is run.                  *)
(***************************************************************************)
RouteEmptyHalts(r) == IF r.kind = "Err" THEN "halt" ELSE "settle"

Route(r) ==
    IF r.kind = "Err"
    THEN IF r.err = "EmptyReply" THEN "skip" ELSE "halt"
    ELSE "settle"

CallbackAlwaysWin(res) == "on_win"

Callback(res) == IF res.result THEN "on_win" ELSE "on_lose"

ConsultsPredictorAlways(h) == Len(h) >= 0

ConsultsPredictor(h) == Len(h) >= HistorySize

(***************************************************************************)
(* Initial state: the Game as main builds it, before login.                *)
(***************************************************************************)
ApiIdle ==
    /\ http = NoValue
    /\ apiOp = "none"
    /\ apiOut = NoValue

RollIdle ==
    /\ rollIn = NoValue
    /\ rollOut = << >>

SiteIdle ==
    /\ published = {}
    /\ revealed = NoValue
    /\ derived = [current_roll |-> "", next_roll |-> ""]
    /\ rollLog = << >>
    /\ resets = 0

EncIdle ==
    /\ encIn = NoValue
    /\ encOut = NoValue

CfgIdle ==
    /\ config = NoValue
    /\ validated = NoValue
    /\ startup = NoValue

(***************************************************************************)
(* AppState::default(): empty strings, zero counters, no API client.  Only *)
(* the fields that configure, placeBet, getBalance, getWinRate and cleanup *)
(* read or write are kept.                                                 *)
(***************************************************************************)
AppStateDefault ==
    [site |-> "", api_key |-> "", balance |-> 0, total_bets |-> 0, wins |-> 0,
     api_client |-> "None"]

NoCall ==
    [op |-> "none", before |-> AppStateDefault, result |-> "none", simulated |-> FALSE]

JniIdle ==
    /\ appState = AppStateDefault
    /\ lock = 0
    /\ jniCall = NoCall
    /\ betCalls = 0
    /\ wonCalls = 0

UnitIdle == RollIdle /\ SiteIdle /\ EncIdle /\ CfgIdle /\ JniIdle

Init ==
    /\ pc = "login"
    /\ site \in Sites
    /\ use_fake_betting \in (IF site = "FreeBitcoIn" THEN BOOLEAN ELSE {FALSE})
    /\ rolls = 0
    /\ current_bet = (CASE site = "CryptoGames" -> PlayMinBet
                        [] site = "FreeBitcoIn" -> FreeBitcoInDefaultBet
                        [] OTHER -> 0)
    /\ multiplier = NeutralMultiplier
    /\ balance = (IF site = "FreeBitcoIn" THEN FreeBitcoInDefaultBalance ELSE 0)
    /\ profit = 0
    /\ stratBalance = (IF site = "FreeBitcoIn" THEN NoStratDefaultBalance ELSE 0)
    /\ history = << >>
    /\ storage = FakeStorageDefault
    /\ prediction = 0
    /\ confidence = 0
    /\ args = NoValue
    /\ decision = NoValue
    /\ sent = NoValue
    /\ sizedBy = "none"
    /\ reply = NoReply
    /\ ret = NoValue
    /\ loginRet = NoValue
    /\ loginReply = NoValue
    /\ haltErr = "none"
    /\ loginCalls = 0
    /\ okCount = 0
    /\ onWinCalls = 0
    /\ onLoseCalls = 0
    /\ strategyFed = 0
    /\ predictorCalls = 0
    /\ outstanding = 0
    /\ ApiIdle
    /\ UnitIdle

(***************************************************************************)
(* main: game.site.login().await?  An Err returns from main, a panic ends  *)
(* the process, Ok enters the loop.                                        *)
(***************************************************************************)
AfterLoginIgnoresError(out) == IF out.kind = "panic" THEN "crashed" ELSE "loop"

AfterLogin(out) ==
    CASE out.kind = "Ok"  -> "loop"
      [] out.kind = "Err" -> "halted"
      [] OTHER            -> "crashed"

Login ==
    /\ pc = "login"
    /\ \E r \in LoginReplies(site) :
         LET o == SiteLogin(site, r)
         IN  /\ balance' = o.balance
             /\ stratBalance' = o.strat
             /\ loginRet' = o.out
             /\ loginReply' = (IF site = "FreeBitcoIn" /\ use_fake_betting
                                THEN NoValue ELSE r)
             /\ pc' = AfterLogin(o.out)
             /\ haltErr' = (IF AfterLogin(o.out) = "halted" THEN o.out.err ELSE haltErr)
    /\ loginCalls' = loginCalls + 1
    /\ UNCHANGED <<site, use_fake_betting, rolls, current_bet, multiplier, profit,
                   history, storage, prediction, confidence, args, decision, sent, sizedBy,
                   reply, ret, okCount, onWinCalls, onLoseCalls, strategyFed,
                   predictorCalls, outstanding>>
    /\ UNCHANGED apiVars
    /\ UNCHANGED unitVars

(***************************************************************************)
(* Game::bet calls site.do_bet(self.prediction, self.confidence); do_bet   *)
(* runs up to the await of its request.  LoopReady: main awaits game.bet() *)
(* and the sleep before it starts the next iteration.                      *)
(***************************************************************************)
LoopReadyWithoutAwait(p) == p \in {"loop", "await"}

LoopReady(p) == p = "loop"

BetRequest ==
    /\ LoopReady(pc)
    /\ rolls < MaxRolls
    /\ ~use_fake_betting
    /\ \E d \in GetNextBet :
         LET q == Sizing(site, d, prediction, history)
         IN  /\ decision' = d
             /\ current_bet' = q.stake
             /\ multiplier' = q.mult
             /\ sent' = q
             /\ sizedBy' = SizedBy(history)
    /\ args' = [prediction |-> prediction, confidence |-> confidence]
    /\ rolls' = rolls + 1
    /\ outstanding' = outstanding + 1
    /\ reply' = NoReply
    /\ ret' = NoValue
    /\ pc' = "await"
    /\ UNCHANGED <<site, use_fake_betting, balance, profit, stratBalance, history,
                   storage, prediction, confidence, loginRet, loginReply, haltErr, loginCalls,
                   okCount, onWinCalls, onLoseCalls, strategyFed, predictorCalls>>
    /\ UNCHANGED apiVars
    /\ UNCHANGED unitVars

(***************************************************************************)
(* The reply arrives and do_bet runs to its return.                        *)
(***************************************************************************)
BetResponse ==
    /\ pc = "await"
    /\ \E r \in BetReplies(site) :
         LET o == SiteDoBetReply(site, r, okCount + 1, current_bet,
                                 Bankroll(site, balance, stratBalance), history)
         IN  /\ reply' = [kind |-> r.kind, status |-> r.status, body |-> r.body]
             /\ history' = o.history
             /\ ret' = o.ret
             /\ okCount' = (IF o.ret.kind = "Ok" THEN okCount + 1 ELSE okCount)
             /\ pc' = (IF o.ret.kind = "panic" THEN "crashed" ELSE "returned")
    /\ outstanding' = outstanding - 1
    /\ UNCHANGED <<site, use_fake_betting, rolls, current_bet, multiplier, balance,
                   profit, stratBalance, storage, prediction, confidence, args,
                   decision, sent, sizedBy, loginRet, loginReply, haltErr, loginCalls,
                   onWinCalls, onLoseCalls,
                   strategyFed, predictorCalls>>
    /\ UNCHANGED apiVars
    /\ UNCHANGED unitVars

(***************************************************************************)
(* FreeBitcoIn::do_bet with use_fake_betting: the bet is placed with the   *)
(* simulated site, without a request to await.                             *)
(***************************************************************************)
FakeBet ==
    /\ LoopReady(pc)
    /\ rolls < MaxRolls
    /\ use_fake_betting
    /\ \E d \in GetNextBet, fresh \in Seeds :
         LET q == FreeBitcoInSizing(d, prediction, history)
             f == FreeBitcoinFakeBet(q.high, FreeBitcoInClientSeed, q.stake, q.mult,
                                     storage, fresh)
             id == okCount + 1
             crash == InsufficientPanics(q.stake, balance)
         IN  /\ decision' = d
             /\ current_bet' = q.stake
             /\ multiplier' = q.mult
             /\ sent' = q
             /\ sizedBy' = SizedBy(history)
             /\ storage' = f.storage
             /\ history' = HistoryPush(history, id)
             /\ ret' = (IF crash THEN Panic
                        ELSE Ok([id |-> id, result |-> f.win, win_amount |-> f.amount]))
             /\ okCount' = (IF crash THEN okCount ELSE id)
             /\ pc' = (IF crash THEN "crashed" ELSE "returned")
    /\ args' = [prediction |-> prediction, confidence |-> confidence]
    /\ rolls' = rolls + 1
    /\ reply' = NoReply
    /\ UNCHANGED <<site, use_fake_betting, balance, profit, stratBalance, prediction,
                   confidence, loginRet, loginReply, haltErr, loginCalls, onWinCalls, onLoseCalls,
                   strategyFed, predictorCalls, outstanding>>
    /\ UNCHANGED apiVars
    /\ UNCHANGED unitVars

(***************************************************************************)
(* Game::bet from the return of do_bet to its own return, and main's match *)
(* on it: an error halts main, Ok sleeps 100 ms and loops.  The locals of  *)
(* the iteration (the decision, the request, the reply, the result) end    *)
(* with it.                                                                *)
(***************************************************************************)
GameBet ==
    /\ pc = "returned"
    /\ LET way == Route(ret)
           st == [balance |-> balance, profit |-> profit, strat |-> stratBalance,
                  fed |-> strategyFed]
           won == way = "settle" /\ Callback(ret.res) = "on_win"
           lost == way = "settle" /\ Callback(ret.res) = "on_lose"
           after == IF won THEN SiteOnWin(site, st, ret.res, history)
                    ELSE IF lost THEN SiteOnLose(site, st, ret.res, history)
                    ELSE st
           predict == way = "settle" /\ ConsultsPredictor(history)
       IN  /\ balance' = after.balance
           /\ profit' = after.profit
           /\ stratBalance' = after.strat
           /\ strategyFed' = after.fed
           /\ onWinCalls' = (IF won THEN onWinCalls + 1 ELSE onWinCalls)
           /\ onLoseCalls' = (IF lost THEN onLoseCalls + 1 ELSE onLoseCalls)
           /\ \E f \in (IF predict THEN Forecasts
                         ELSE {[prediction |-> prediction, confidence |-> confidence]}) :
                /\ prediction' = f.prediction
                /\ confidence' = f.confidence
           /\ predictorCalls' = (IF predict THEN predictorCalls + 1 ELSE predictorCalls)
           /\ pc' = (IF way = "halt" THEN "halted" ELSE "loop")
           /\ haltErr' = (IF way = "halt" THEN ret.err ELSE haltErr)
           /\ args' = (IF way = "halt" THEN args ELSE NoValue)
           /\ decision' = (IF way = "halt" THEN decision ELSE NoValue)
           /\ sent' = (IF way = "halt" THEN sent ELSE NoValue)
           /\ sizedBy' = (IF way = "halt" THEN sizedBy ELSE "none")
           /\ reply' = (IF way = "halt" THEN reply ELSE NoReply)
           /\ ret' = (IF way = "halt" THEN ret ELSE NoValue)
    /\ UNCHANGED <<site, use_fake_betting, rolls, current_bet, multiplier, history,
                   storage, loginRet, loginReply, loginCalls, okCount, outstanding>>
    /\ UNCHANGED apiVars
    /\ UNCHANGED unitVars

Next == Login \/ BetRequest \/ BetResponse \/ FakeBet \/ GameBet

Spec == Init /\ [][Next]_vars

(***************************************************************************)
(* DuckDiceClient (android-lib).  A response has a status, possibly a      *)
(* retry-after header and a body; or the transport failed.  A header       *)
(* value is absent, opaque (HeaderValue::to_str fails on it) or a text.    *)
(***************************************************************************)
HeaderChars == {"0", "4", "5", "+", "x"}

Digits == {"0", "4", "5"}

DigitValue(c) == CASE c = "0" -> 0 [] c = "4" -> 4 [] c = "5" -> 5 [] OTHER -> 0

HeaderTexts == UNION {[1..n -> HeaderChars] : n \in 0..MaxHeaderLen}

Headers == {[kind |-> "absent", text |-> << >>], [kind |-> "opaque", text |-> << >>]} \cup
           {[kind |-> "text", text |-> t] : t \in HeaderTexts}

Statuses == {200, RateLimitStatus, 500}

HttpResponses ==
    {[kind |-> "neterr", status |-> 0, header |-> [kind |-> "absent", text |-> << >>],
      body |-> "none"]} \cup
    [kind : {"http"}, status : Statuses, header : Headers, body : {"valid", "malformed"}]

(***************************************************************************)
(* str::parse::<u64>: an optional leading '+', then one or more decimal    *)
(* digits (a text of at most MaxHeaderLen characters cannot overflow).     *)
(* Returns -1 for Err.                                                     *)
(***************************************************************************)
RECURSIVE HornerValue(_, _)
HornerValue(t, acc) ==
    IF t = << >> THEN acc ELSE HornerValue(Tail(t), 10 * acc + DigitValue(Head(t)))

ParseU64(t) ==
    LET ds == IF t # << >> /\ Head(t) = "+" THEN Tail(t) ELSE t
    IN  IF ds # << >> /\ \A i \in 1..Len(ds) : ds[i] \in Digits
        THEN HornerValue(ds, 0)
        ELSE -1

RateLimitError(n) == [kind |-> "RateLimitError", seconds |-> n]

ApiOk == [kind |-> "Ok", seconds |-> 0]

ApiError(k) == [kind |-> k, seconds |-> 0]

\* DuckDiceClient::handle_rate_limit
HandleRateLimitNoDefault(resp) ==
    IF resp.status = RateLimitStatus /\ resp.header.kind = "text"
          /\ ParseU64(resp.header.text) >= 0
    THEN RateLimitError(ParseU64(resp.header.text))
    ELSE ApiOk

HandleRateLimit(resp) ==
    IF resp.status = RateLimitStatus
    THEN IF resp.header.kind = "text" /\ ParseU64(resp.header.text) >= 0
         THEN RateLimitError(ParseU64(resp.header.text))
         ELSE RateLimitError(DefaultRetryAfter)
    ELSE ApiOk

IsSuccess(status) == status >= 200 /\ status < 300

(***************************************************************************)
(* get_user_info, place_bet and randomize_seed: send, handle_rate_limit,   *)
(* the status check, then (but for randomize_seed) the JSON body.          *)
(***************************************************************************)
ClientCall(resp, parsesBody) ==
    IF resp.kind = "neterr" THEN ApiError("NetworkError")
    ELSE IF HandleRateLimit(resp).kind # "Ok" THEN HandleRateLimit(resp)
    ELSE IF ~IsSuccess(resp.status) THEN ApiError("ApiError")
    ELSE IF parsesBody /\ resp.body # "valid" THEN ApiError("NetworkError")
    ELSE ApiOk

GetUserInfo(resp) == ClientCall(resp, TRUE)

PlaceBet(resp) == ClientCall(resp, TRUE)

RandomizeSeed(resp) == ClientCall(resp, FALSE)

GameIdle ==
    /\ pc = "idle"
    /\ site = "DuckDiceIo"
    /\ use_fake_betting = FALSE
    /\ rolls = 0
    /\ current_bet = 0
    /\ multiplier = NeutralMultiplier
    /\ balance = 0
    /\ profit = 0
    /\ stratBalance = 0
    /\ history = << >>
    /\ storage = FakeStorageDefault
    /\ prediction = 0
    /\ confidence = 0
    /\ args = NoValue
    /\ decision = NoValue
    /\ sent = NoValue
    /\ sizedBy = "none"
    /\ reply = NoReply
    /\ ret = NoValue
    /\ loginRet = NoValue
    /\ loginReply = NoValue
    /\ haltErr = "none"
    /\ loginCalls = 0
    /\ okCount = 0
    /\ onWinCalls = 0
    /\ onLoseCalls = 0
    /\ strategyFed = 0
    /\ predictorCalls = 0
    /\ outstanding = 0

InitApi ==
    /\ GameIdle
    /\ http \in HttpResponses
    /\ apiOp = "none"
    /\ apiOut = NoValue
    /\ UnitIdle

ApiGetUserInfo ==
    /\ apiOp = "none"
    /\ apiOp' = "get_user_info"
    /\ apiOut' = GetUserInfo(http)
    /\ UNCHANGED http
    /\ UNCHANGED gameVars
    /\ UNCHANGED unitVars

ApiPlaceBet ==
    /\ apiOp = "none"
    /\ apiOp' = "place_bet"
    /\ apiOut' = PlaceBet(http)
    /\ UNCHANGED http
    /\ UNCHANGED gameVars
    /\ UNCHANGED unitVars

ApiRandomizeSeed ==
    /\ apiOp = "none"
    /\ apiOp' = "randomize_seed"
    /\ apiOut' = RandomizeSeed(http)
    /\ UNCHANGED http
    /\ UNCHANGED gameVars
    /\ UNCHANGED unitVars

NextApi == ApiGetUserInfo \/ ApiPlaceBet \/ ApiRandomizeSeed

SpecApi == InitApi /\ [][NextApi]_vars

(***************************************************************************)
(* The roll functions on their own.  rollIn holds the arguments of a call  *)
(* (the storage with its server seed and nonce, the client seed, the nonce *)
(* argument of the dataset variant) and a hex digest; rollOut collects     *)
(* what each call returned.  Every call starts from the storage of rollIn. *)
(***************************************************************************)
MaxRuns == 2

RollStorages ==
    {[FakeStorageDefault EXCEPT !.server_seed = s, !.current_nonce = n] :
        s \in Seeds, n \in 0..2}

InitRoll ==
    /\ GameIdle
    /\ ApiIdle
    /\ JniIdle
    /\ rollIn \in [storage : RollStorages, client_seed : ClientSeeds,
                   nonce : 0..2, digest : Digests]
    /\ rollOut = << >>
    /\ SiteIdle
    /\ EncIdle
    /\ CfgIdle

RunGenFakeBet ==
    /\ Len(rollOut) < MaxRuns
    /\ \E fresh \in Seeds :
         LET g == GenFakeBet(rollIn.storage, rollIn.client_seed, fresh)
         IN  rollOut' = Append(rollOut, [fn |-> "fake_test::gen_fake_bet",
                                         number |-> g.number])
    /\ UNCHANGED <<rollIn>>
    /\ UNCHANGED gameVars
    /\ UNCHANGED apiVars
    /\ UNCHANGED jniVars
    /\ UNCHANGED siteVars
    /\ UNCHANGED encVars
    /\ UNCHANGED cfgVars

RunDatasetGenFakeBet ==
    /\ Len(rollOut) < MaxRuns
    /\ \E freshSeed \in Seeds, freshClient \in ClientSeeds :
         LET g == DatasetGenFakeBet(rollIn.storage, rollIn.client_seed, rollIn.nonce,
                                    freshSeed, freshClient)
         IN  rollOut' = Append(rollOut, [fn |-> "dataset::gen_fake_bet",
                                         number |-> g.number])
    /\ UNCHANGED <<rollIn>>
    /\ UNCHANGED gameVars
    /\ UNCHANGED apiVars
    /\ UNCHANGED jniVars
    /\ UNCHANGED siteVars
    /\ UNCHANGED encVars
    /\ UNCHANGED cfgVars

RunLuckyNumber ==
    /\ Len(rollOut) < MaxRuns
    /\ rollOut' = Append(rollOut, [fn |-> "scan", number |-> LuckyNumber(rollIn.digest)])
    /\ UNCHANGED <<rollIn>>
    /\ UNCHANGED gameVars
    /\ UNCHANGED apiVars
    /\ UNCHANGED jniVars
    /\ UNCHANGED siteVars
    /\ UNCHANGED encVars
    /\ UNCHANGED cfgVars

NextRoll == RunGenFakeBet \/ RunDatasetGenFakeBet \/ RunLuckyNumber

SpecRoll == InitRoll /\ [][NextRoll]_vars

(***************************************************************************)
(* The simulated site on its own: bets of either kind and resets of the    *)
(* server seed, on SERVER_STORAGE.  The 64 random alphanumeric characters  *)
(* of a new server seed are taken never to repeat an earlier seed.         *)
(* Bookkeeping kept beside the storage: the hashes the responses have      *)
(* returned so far, the seed each stored roll was generated from, and the  *)
(* (seed, nonce) of every roll generated.                                  *)
(***************************************************************************)
MaxSiteBets == 5

MaxResets == 2

SiteMultipliers == {200, 400}

InitSite ==
    /\ GameIdle
    /\ ApiIdle
    /\ JniIdle
    /\ RollIdle
    /\ SiteIdle
    /\ EncIdle
    /\ CfgIdle

UsedSeeds == {rollLog[i].seed : i \in 1..Len(rollLog)}

\* what the generator of gen_fake_bet can return; it runs when the nonce is 0
FreshSeeds == IF storage.current_nonce = 0 THEN Seeds \ UsedSeeds ELSE {NoSeed}

\* the bookkeeping of one bet: r is what the bet function returned, hashes
\* the hash fields of its response, number the number the response carries
\* impl From<free_bitco_in::BetSiteResult> for BetResult, the two hashes
BetResultOfBetSiteResult(r) ==
    [hash_previous_roll |-> r.server_seed_hash_previous_roll,
     hash_next_roll     |-> r.server_seed_hash_next_roll]

\* impl From<duck_dice::BetMakeResponse> for BetResult, the two hashes
BetResultOfBetMakeResponse(r) ==
    [hash_previous_roll |-> r.previous_hash,
     hash_next_roll     |-> r.hash]

SiteBookkeeping(fn, r, hashes, number, result) ==
    /\ storage' = r.storage
    /\ revealed' = [fn |-> fn, number |-> number, seed |-> derived.next_roll,
                    hashes |-> hashes, before |-> published,
                    hash_previous_roll |-> result.hash_previous_roll,
                    hash_next_roll |-> result.hash_next_roll,
                    earlier |-> IF rollLog = << >> THEN NoHash
                                ELSE revealed.hash_next_roll]
    /\ published' = published \cup hashes
    /\ derived' = [current_roll |-> derived.next_roll,
                   next_roll |-> r.storage.server_seed]
    /\ rollLog' = Append(rollLog, [seed |-> r.storage.server_seed,
                                   nonce |-> storage.current_nonce,
                                   resets |-> resets,
                                   generated |-> r.storage.server_seed # storage.server_seed])

SiteFreeBitcoinFakeBet ==
    /\ Len(rollLog) < MaxSiteBets
    /\ \E high \in BOOLEAN, c \in ClientSeeds, m \in SiteMultipliers,
          fresh \in FreshSeeds :
         LET r == FreeBitcoinFakeBet(high, c, FreeBitcoInWarmupBet, m, storage, fresh)
         IN  SiteBookkeeping("free_bitcoin_fake_bet", r,
                             {r.server_seed_hash_next_roll,
                              r.server_seed_hash_previous_roll},
                             r.rolled_number, BetResultOfBetSiteResult(r))
    /\ UNCHANGED <<pc, site, use_fake_betting, rolls, current_bet, multiplier, balance,
                   profit, stratBalance, history, prediction, confidence, args,
                   decision, sent, sizedBy, reply, ret, loginRet, loginReply, haltErr,
                   loginCalls, okCount,
                   onWinCalls, onLoseCalls, strategyFed, predictorCalls, outstanding>>
    /\ UNCHANGED <<resets>>
    /\ UNCHANGED apiVars
    /\ UNCHANGED jniVars
    /\ UNCHANGED rollVars
    /\ UNCHANGED encVars
    /\ UNCHANGED cfgVars

SiteDuckdiceFakeBet ==
    /\ Len(rollLog) < MaxSiteBets
    /\ \E high \in BOOLEAN, c \in ClientSeeds, m \in SiteMultipliers,
          fresh \in FreshSeeds :
         LET r == DuckdiceFakeBet(high, c, FreeBitcoInWarmupBet, m, storage, fresh)
         IN  SiteBookkeeping("duckdice_fake_bet", r, {r.hash, r.previous_hash}, r.number,
                             BetResultOfBetMakeResponse(r))
    /\ UNCHANGED <<pc, site, use_fake_betting, rolls, current_bet, multiplier, balance,
                   profit, stratBalance, history, prediction, confidence, args,
                   decision, sent, sizedBy, reply, ret, loginRet, loginReply, haltErr,
                   loginCalls, okCount,
                   onWinCalls, onLoseCalls, strategyFed, predictorCalls, outstanding>>
    /\ UNCHANGED <<resets>>
    /\ UNCHANGED apiVars
    /\ UNCHANGED jniVars
    /\ UNCHANGED rollVars
    /\ UNCHANGED encVars
    /\ UNCHANGED cfgVars

SiteResetServerSeed ==
    /\ resets < MaxResets
    /\ resets' = resets + 1
    /\ storage' = ResetServerSeed(storage)
    /\ UNCHANGED <<pc, site, use_fake_betting, rolls, current_bet, multiplier, balance,
                   profit, stratBalance, history, prediction, confidence, args,
                   decision, sent, sizedBy, reply, ret, loginRet, loginReply, haltErr,
                   loginCalls, okCount,
                   onWinCalls, onLoseCalls, strategyFed, predictorCalls, outstanding>>
    /\ UNCHANGED <<published, revealed, derived, rollLog>>
    /\ UNCHANGED apiVars
    /\ UNCHANGED jniVars
    /\ UNCHANGED rollVars
    /\ UNCHANGED encVars
    /\ UNCHANGED cfgVars

NextSite == SiteFreeBitcoinFakeBet \/ SiteDuckdiceFakeBet \/ SiteResetServerSeed

SpecSite == InitSite /\ [][NextSite]_vars

(***************************************************************************)
(* Feature encoding (util.rs, main.rs, data.rs).  A string is a sequence   *)
(* of characters; a bit vector is a sequence of 0 and 1 (the FloatElem 0.0 *)
(* and 1.0).                                                               *)
(***************************************************************************)
HASH_NEXT_ROLL_SIZE == 256

HASH_PREVIOUS_ROLL_SIZE == 512

CLIENT_SEED_SIZE == 768

FINAL_FEATURE_SIZE == 1024

NonceWidth == 32

\* char::to_digit(16): the digit's value, or -1 for None
ToDigit16(c) ==
    CASE c = "0" -> 0  [] c = "1" -> 1  [] c = "2" -> 2  [] c = "3" -> 3
      [] c = "4" -> 4  [] c = "5" -> 5  [] c = "6" -> 6  [] c = "7" -> 7
      [] c = "8" -> 8  [] c = "9" -> 9
      [] c \in {"a", "A"} -> 10 [] c \in {"b", "B"} -> 11 [] c \in {"c", "C"} -> 12
      [] c \in {"d", "D"} -> 13 [] c \in {"e", "E"} -> 14 [] c \in {"f", "F"} -> 15
      [] OTHER -> -1

\* value >> i
RECURSIVE Shr(_, _)
Shr(value, i) == IF i = 0 THEN value ELSE Shr(value \div 2, i - 1)

\* the closure of hex_string_to_binary_vec: the bits (value >> i) & 1 for
\* i = 3, 2, 1, 0, where value is to_digit(16).unwrap_or(0)
HexCharBitsLsbFirst(chr) ==
    LET value == IF ToDigit16(chr) < 0 THEN 0 ELSE ToDigit16(chr)
    IN  [j \in 1..4 |-> Shr(value, j - 1) % 2]

HexCharBits(chr) ==
    LET value == IF ToDigit16(chr) < 0 THEN 0 ELSE ToDigit16(chr)
    IN  [j \in 1..4 |-> Shr(value, 4 - j) % 2]

\* hex_string_to_binary_vec: flat_map over the characters
HexStringToBinaryVec(hex_str) ==
    [p \in 1..(4 * Len(hex_str)) |->
        HexCharBits(hex_str[((p - 1) \div 4) + 1])[((p - 1) % 4) + 1]]

\* Vec::resize(n, 0.0): truncate or pad with zeros
ResizePadOnly(vals, n) ==
    IF Len(vals) >= n THEN vals ELSE [p \in 1..n |-> IF p <= Len(vals) THEN vals[p] ELSE 0]

Resize(vals, n) == [p \in 1..n |-> IF p <= Len(vals) THEN vals[p] ELSE 0]

\* (0..32).map(|i| (nonce >> i) & 1)
NonceBits(nonce) == [i \in 1..NonceWidth |-> Shr(nonce, i - 1) % 2]

\* the closure of Game::bet over one BetResult of the history
GameEncodeEntry(itm) ==
    LET v1 == Resize(HexStringToBinaryVec(itm.hash_next_roll), HASH_NEXT_ROLL_SIZE)
        v2 == Resize(v1 \o HexStringToBinaryVec(itm.hash_previous_roll),
                     HASH_PREVIOUS_ROLL_SIZE)
        v3 == Resize(v2 \o HexStringToBinaryVec(itm.client_seed), CLIENT_SEED_SIZE)
    IN  Resize(v3 \o NonceBits(itm.nonce), FINAL_FEATURE_SIZE)

\* the closure of BetBatcher::batch over one BetResultCsvRecord
BatchEncodeItem(itm) ==
    LET v1 == Resize(HexStringToBinaryVec(itm.server_seed_hash_next_roll),
                     HASH_NEXT_ROLL_SIZE)
        v2 == Resize(v1 \o HexStringToBinaryVec(itm.server_seed_hash_previous_roll),
                     HASH_PREVIOUS_ROLL_SIZE)
        v3 == Resize(v2 \o HexStringToBinaryVec(itm.client_seed), CLIENT_SEED_SIZE)
    IN  Resize(v3 \o NonceBits(itm.nonce), FINAL_FEATURE_SIZE)

\* history.iter().flat_map(..).collect()
RECURSIVE GameEncode(_)
GameEncode(h) == IF h = << >> THEN << >> ELSE GameEncodeEntry(Head(h)) \o GameEncode(Tail(h))

RECURSIVE BatchEncode(_)
BatchEncode(items) ==
    IF items = << >> THEN << >>
    ELSE BatchEncodeItem(Head(items)) \o BatchEncode(Tail(items))

\* the training record that carries the field values of a BetResult
CsvRecord(itm) ==
    [server_seed_hash_next_roll     |-> itm.hash_next_roll,
     server_seed_hash_previous_roll |-> itm.hash_previous_roll,
     client_seed                    |-> itm.client_seed,
     nonce                          |-> itm.nonce]

CsvRecords(h) == [i \in 1..Len(h) |-> CsvRecord(h[i])]

(***************************************************************************)
(* The encoders on their own.  encIn is a string for                       *)
(* hex_string_to_binary_vec or a history for the two entry encoders;       *)
(* encOut records which encoders ran and what they returned.               *)
(***************************************************************************)
MaxTextLen == 2

TextChars == {"0", "9", "a", "F", "g", "Z"}

HexPattern == <<"a", "F", "0", "7", "c", "9", "E", "1">>

AlnumPattern == <<"B", "e", "O", "2", "j", "Z", "R", "d", "4">>

Repeat(pattern, n) == [i \in 1..n |-> pattern[((i - 1) % Len(pattern)) + 1]]

EncTexts ==
    UNION {[1..n -> TextChars] : n \in 0..MaxTextLen} \cup
    {Repeat(HexPattern, n) : n \in {40, 64}} \cup
    {Repeat(AlnumPattern, 30)}

HashTexts == {Repeat(HexPattern, n) : n \in {0, 64, 65}}

SeedTexts == {Repeat(AlnumPattern, n) : n \in {0, 30, 70}} \cup {Repeat(HexPattern, 40)}

EncNonces == {0, 12345, 2147483647}

EncEntries ==
    [hash_next_roll : HashTexts, hash_previous_roll : HashTexts,
     client_seed : SeedTexts, nonce : EncNonces]

LaterEntries ==
    {[hash_next_roll |-> Repeat(HexPattern, 64), hash_previous_roll |-> Repeat(HexPattern, 64),
      client_seed |-> Repeat(HexPattern, 40), nonce |-> 12345],
     [hash_next_roll |-> << >>, hash_previous_roll |-> Repeat(HexPattern, 65),
      client_seed |-> Repeat(AlnumPattern, 70), nonce |-> 1]}

EncHistories ==
    {<<e>> : e \in EncEntries} \cup {<<e, f>> : e \in EncEntries, f \in LaterEntries}

NothingEncoded == [done |-> {}, hex |-> << >>, game |-> << >>, batch |-> << >>]

InitEncode ==
    /\ GameIdle
    /\ ApiIdle
    /\ JniIdle
    /\ RollIdle
    /\ SiteIdle
    /\ encIn \in {[kind |-> "text", text |-> t, history |-> << >>] : t \in EncTexts} \cup
                 {[kind |-> "history", text |-> << >>, history |-> h] : h \in EncHistories}
    /\ encOut = NothingEncoded
    /\ CfgIdle

RunHexStringToBinaryVec ==
    /\ encIn.kind = "text"
    /\ "hex" \notin encOut.done
    /\ encOut' = [encOut EXCEPT !.done = @ \cup {"hex"},
                                !.hex = HexStringToBinaryVec(encIn.text)]
    /\ UNCHANGED <<encIn>>
    /\ UNCHANGED gameVars
    /\ UNCHANGED apiVars
    /\ UNCHANGED jniVars
    /\ UNCHANGED rollVars
    /\ UNCHANGED siteVars
    /\ UNCHANGED cfgVars

RunGameEncode ==
    /\ encIn.kind = "history"
    /\ "game" \notin encOut.done
    /\ encOut' = [encOut EXCEPT !.done = @ \cup {"game"},
                                !.game = GameEncode(encIn.history)]
    /\ UNCHANGED <<encIn>>
    /\ UNCHANGED gameVars
    /\ UNCHANGED apiVars
    /\ UNCHANGED jniVars
    /\ UNCHANGED rollVars
    /\ UNCHANGED siteVars
    /\ UNCHANGED cfgVars

RunBatchEncode ==
    /\ encIn.kind = "history"
    /\ "batch" \notin encOut.done
    /\ encOut' = [encOut EXCEPT !.done = @ \cup {"batch"},
                                !.batch = BatchEncode(CsvRecords(encIn.history))]
    /\ UNCHANGED <<encIn>>
    /\ UNCHANGED gameVars
    /\ UNCHANGED apiVars
    /\ UNCHANGED jniVars
    /\ UNCHANGED rollVars
    /\ UNCHANGED siteVars
    /\ UNCHANGED cfgVars

NextEncode == RunHexStringToBinaryVec \/ RunGameEncode \/ RunBatchEncode

SpecEncode == InitEncode /\ [][NextEncode]_vars

(***************************************************************************)
(* Configuration (config.rs).  A credential is a string, empty or not.     *)
(* validate() walks the three sites in the order duck_dice, crypto_games,  *)
(* freebitcoin, returns at the first enabled site with an empty            *)
(* credential, and then looks at the number of enabled sites.              *)
(***************************************************************************)
Credentials == {"", "secret"}

TomlConfigs ==
    [duck_dice    : [enabled : BOOLEAN, api_key : Credentials],
     crypto_games : [enabled : BOOLEAN, api_key : Credentials],
     freebitcoin  : [enabled : BOOLEAN, btc_address : Credentials,
                     password : Credentials]]

IsEmpty(str) == str = ""

Count(enabled) == IF enabled THEN 1 ELSE 0

ValidateAllowsSeveral(c) ==
    LET enabled_count == Count(c.duck_dice.enabled) + Count(c.crypto_games.enabled)
                            + Count(c.freebitcoin.enabled)
    IN  IF c.duck_dice.enabled /\ IsEmpty(c.duck_dice.api_key)
        THEN Err("DuckDice API key cannot be empty")
        ELSE IF c.crypto_games.enabled /\ IsEmpty(c.crypto_games.api_key)
        THEN Err("CryptoGames API key cannot be empty")
        ELSE IF c.freebitcoin.enabled /\ IsEmpty(c.freebitcoin.btc_address)
        THEN Err("FreeBitco.in BTC address cannot be empty")
        ELSE IF c.freebitcoin.enabled /\ IsEmpty(c.freebitcoin.password)
        THEN Err("FreeBitco.in password cannot be empty")
        ELSE IF enabled_count = 0
        THEN Err("At least one site must be enabled")
        ELSE Ok(0)

\* TomlConfig::validate
Validate(c) ==
    LET enabled_count == Count(c.duck_dice.enabled) + Count(c.crypto_games.enabled)
                            + Count(c.freebitcoin.enabled)
    IN  IF c.duck_dice.enabled /\ IsEmpty(c.duck_dice.api_key)
        THEN Err("DuckDice API key cannot be empty")
        ELSE IF c.crypto_games.enabled /\ IsEmpty(c.crypto_games.api_key)
        THEN Err("CryptoGames API key cannot be empty")
        ELSE IF c.freebitcoin.enabled /\ IsEmpty(c.freebitcoin.btc_address)
        THEN Err("FreeBitco.in BTC address cannot be empty")
        ELSE IF c.freebitcoin.enabled /\ IsEmpty(c.freebitcoin.password)
        THEN Err("FreeBitco.in password cannot be empty")
        ELSE IF enabled_count = 0
        THEN Err("At least one site must be enabled")
        ELSE IF enabled_count > 1
        THEN Err("Only one site can be enabled at a time")
        ELSE Ok(0)

InitConfig ==
    /\ GameIdle
    /\ ApiIdle
    /\ JniIdle
    /\ RollIdle
    /\ SiteIdle
    /\ EncIdle
    /\ config \in TomlConfigs
    /\ validated = NoValue
    /\ startup = NoValue

RunValidate ==
    /\ validated = NoValue
    /\ validated' = Validate(config)
    /\ UNCHANGED <<config, startup>>
    /\ UNCHANGED gameVars
    /\ UNCHANGED apiVars
    /\ UNCHANGED jniVars
    /\ UNCHANGED rollVars
    /\ UNCHANGED siteVars
    /\ UNCHANGED encVars

(***************************************************************************)
(* main after validate(): an Err returns ConfigError; otherwise the site   *)
(* is chosen, the trained model is loaded (which may fail) and login() is  *)
(* called.                                                                 *)
(***************************************************************************)
Started(adapter, outcome) == [kind |-> "started", adapter |-> adapter, outcome |-> outcome]

ModelLoads == {"loaded", "missing"}

\* let site: Box<dyn Site> = if game_config.duck_dice.enabled { .. } else { .. }
SelectSite(c) == IF c.duck_dice.enabled THEN "DuckDiceIo" ELSE "none"

MainStartup(c, v, load) ==
    IF v.kind # "Ok" THEN Started("none", "ConfigError")
    ELSE IF SelectSite(c) = "none" THEN Started("none", "NoSiteEnabled")
    ELSE IF load # "loaded" THEN Started(SelectSite(c), "ModelLoadFailed")
    ELSE Started(SelectSite(c), "login")

RunMain ==
    /\ validated # NoValue
    /\ startup = NoValue
    /\ \E load \in ModelLoads : startup' = MainStartup(config, validated, load)
    /\ UNCHANGED <<config, validated>>
    /\ UNCHANGED gameVars
    /\ UNCHANGED apiVars
    /\ UNCHANGED jniVars
    /\ UNCHANGED rollVars
    /\ UNCHANGED siteVars
    /\ UNCHANGED encVars

NextConfig == RunValidate \/ RunMain

SpecConfig == InitConfig /\ [][NextConfig]_vars

(***************************************************************************)
(* The JNI bridge (android-lib/src/lib.rs).  Every exported function takes *)
(* STATE's mutex on entry and drops the guard when it returns; a call that *)
(* awaits the DuckDice API does so inside RUNTIME.block_on with the guard  *)
(* still alive.  Balances are in hundredths, so the simulation's 0.01 is 1 *)
(* and the demo balance 1.0 is DemoBalance.                                *)
(***************************************************************************)
MaxJniBets == 3

JniThreads == {1, 2}

DuckDiceNames == {"duck_dice", "duckdice"}

JniSites == DuckDiceNames \cup {"crypto_games"}

ApiKeys == {"", "key"}

DemoBalance == 100

SimulationStep == 1

\* what the API reports as the balance: a text that parses, or none that does
ReportedBalances == {[parsed |-> FALSE, value |-> 0], [parsed |-> TRUE, value |-> 50]}

\* the responses the bridge's requests are answered with
JniResponses ==
    {r \in HttpResponses : r.header.kind = "absent"}

\* AppState::win_rate, in percent
WinRate(st) ==
    IF st.total_bets = 0 THEN 0 ELSE (100 * st.wins) \div st.total_bets

\* AppState::initialize_client
InitializeClient(st) ==
    IF st.api_key = ""
    THEN [state |-> st, result |-> "AuthenticationError"]
    ELSE [state |-> [st EXCEPT !.api_client = "Some"], result |-> "Ok"]

\* configure from taking the lock to the first await or to its return
ConfigureEntry(st, s, key) ==
    LET st1 == [st EXCEPT !.site = s, !.api_key = key]
    IN  IF s \in DuckDiceNames
        THEN InitializeClient(st1)
        ELSE [state |-> [st1 EXCEPT !.balance = DemoBalance], result |-> "demo"]

\* the balance a user-info or bet response leaves in the state
WithReportedBalance(st, bal) ==
    IF bal.parsed THEN [st EXCEPT !.balance = bal.value] ELSE st

\* placeBet's first statement
CountBet(st) == [st EXCEPT !.total_bets = st.total_bets + 1]

\* placeBet's match arms on the result of client.place_bet
PlaceBetSettled(st, out, won, bal) ==
    IF out.kind = "Ok"
    THEN WithReportedBalance(
             IF won THEN [st EXCEPT !.wins = st.wins + 1] ELSE st, bal)
    ELSE st

\* placeBet's simulation branch
PlaceBetSimulated(st, won) ==
    IF won
    THEN [st EXCEPT !.wins = st.wins + 1, !.balance = st.balance + SimulationStep]
    ELSE [st EXCEPT !.balance = st.balance - SimulationStep]

InitJni ==
    /\ GameIdle
    /\ ApiIdle
    /\ RollIdle
    /\ SiteIdle
    /\ EncIdle
    /\ CfgIdle
    /\ JniIdle

JniUnchanged ==
    /\ UNCHANGED gameVars
    /\ UNCHANGED apiVars
    /\ UNCHANGED rollVars
    /\ UNCHANGED siteVars
    /\ UNCHANGED encVars
    /\ UNCHANGED cfgVars

\* configure up to its return or to the await of get_user_info
JniConfigure ==
    \E t \in JniThreads, s \in JniSites, key \in ApiKeys :
        LET e == ConfigureEntry(appState, s, key)
        IN  /\ lock = 0
            /\ appState' = e.state
            /\ lock' = IF e.result = "Ok" THEN t ELSE 0
            /\ jniCall' = [op |-> "configure", before |-> appState,
                           result |-> IF e.result = "Ok" THEN "pending" ELSE "done",
                           simulated |-> FALSE]
            /\ UNCHANGED <<betCalls, wonCalls>>
            /\ JniUnchanged

\* configure from the answer of get_user_info to its return
JniConfigureResponse ==
    \E resp \in JniResponses, bal \in ReportedBalances :
        /\ lock # 0
        /\ jniCall.op = "configure"
        /\ jniCall.result = "pending"
        /\ appState' = (IF GetUserInfo(resp).kind = "Ok"
                        THEN WithReportedBalance(appState, bal)
                        ELSE appState)
        /\ lock' = 0
        /\ jniCall' = [jniCall EXCEPT !.result = "done"]
        /\ UNCHANGED <<betCalls, wonCalls>>
        /\ JniUnchanged

\* placeBet up to its return (simulation) or to the await of place_bet
JniPlaceBet ==
    \E t \in JniThreads, won \in BOOLEAN :
        /\ lock = 0
        /\ appState.total_bets < MaxJniBets
        /\ betCalls' = betCalls + 1
        /\ IF appState.api_client = "Some"
           THEN /\ appState' = CountBet(appState)
                /\ lock' = t
                /\ jniCall' = [op |-> "placeBet", before |-> appState,
                               result |-> "pending", simulated |-> FALSE]
                /\ UNCHANGED wonCalls
           ELSE /\ appState' = PlaceBetSimulated(CountBet(appState), won)
                /\ lock' = 0
                /\ jniCall' = [op |-> "placeBet", before |-> appState,
                               result |-> IF won THEN "won" ELSE "lost",
                               simulated |-> TRUE]
                /\ wonCalls' = IF won THEN wonCalls + 1 ELSE wonCalls
        /\ JniUnchanged

\* placeBet from the answer of place_bet to its return
JniPlaceBetResponse ==
    \E resp \in JniResponses, won \in BOOLEAN, bal \in ReportedBalances :
        LET out == PlaceBet(resp)
        IN  /\ lock # 0
            /\ jniCall.op = "placeBet"
            /\ jniCall.result = "pending"
            /\ appState' = PlaceBetSettled(appState, out, won, bal)
            /\ lock' = 0
            /\ jniCall' = [jniCall EXCEPT
                              !.result = IF out.kind # "Ok" THEN "failed"
                                         ELSE IF won THEN "won" ELSE "lost"]
            /\ wonCalls' = IF out.kind = "Ok" /\ won THEN wonCalls + 1 ELSE wonCalls
            /\ UNCHANGED betCalls
            /\ JniUnchanged

\* getBalance up to its return or to the await of get_user_info
JniGetBalance ==
    \E t \in JniThreads :
        /\ lock = 0
        /\ lock' = IF appState.api_client = "Some" THEN t ELSE 0
        /\ jniCall' = [op |-> "getBalance", before |-> appState,
                       result |-> IF appState.api_client = "Some" THEN "pending" ELSE "done",
                       simulated |-> FALSE]
        /\ UNCHANGED <<appState, betCalls, wonCalls>>
        /\ JniUnchanged

\* getBalance from the answer of get_user_info to its return
JniGetBalanceResponse ==
    \E resp \in JniResponses, bal \in ReportedBalances :
        /\ lock # 0
        /\ jniCall.op = "getBalance"
        /\ jniCall.result = "pending"
        /\ appState' = (IF GetUserInfo(resp).kind = "Ok"
                        THEN WithReportedBalance(appState, bal)
                        ELSE appState)
        /\ lock' = 0
        /\ jniCall' = [jniCall EXCEPT !.result = "done"]
        /\ UNCHANGED <<betCalls, wonCalls>>
        /\ JniUnchanged

\* cleanup: *state = AppState::default()
JniCleanup ==
    /\ lock = 0
    /\ appState' = AppStateDefault
    /\ jniCall' = [op |-> "cleanup", before |-> appState, result |-> "done",
                   simulated |-> FALSE]
    /\ betCalls' = 0
    /\ wonCalls' = 0
    /\ UNCHANGED lock
    /\ JniUnchanged

NextJni ==
    \/ JniConfigure
    \/ JniConfigureResponse
    \/ JniPlaceBet
    \/ JniPlaceBetResponse
    \/ JniGetBalance
    \/ JniGetBalanceResponse
    \/ JniCleanup

SpecJni == InitJni /\ [][NextJni]_vars

(***************************************************************************)
(*                              Properties                                 *)
(***************************************************************************)
SiteMinBet(s) == IF s = "CryptoGames" THEN PlayMinBet ELSE FreeBitcoInWarmupBet

SiteMinMultiplier(s) ==
    IF s = "CryptoGames" THEN CryptoGamesMinMultiplier ELSE FreeBitcoInMinMultiplier

SiteMaxMultiplier(s) ==
    IF s = "CryptoGames" THEN CryptoGamesMaxMultiplier ELSE FreeBitcoInMaxMultiplier

Settled == onWinCalls + onLoseCalls

\* the last Min(n, w) of the results 1..n, oldest first
LastResults(n, w) == [i \in 1..Min(n, w) |-> n - Min(n, w) + i]

\* C1: after N do_bet calls that returned Ok the history of an adapter is
\* the last min(N, history_size) results in their order, and its length
\* never exceeds history_size.
C1_HistoryBound ==
    site \in CodeSites =>
        /\ Len(history) <= HistorySize
        /\ pc # "crashed" => history = LastResults(okCount, HistorySize)

C1_Witness ==
    /\ site \in CodeSites
    /\ pc = "loop"
    /\ okCount > HistorySize

\* C2: a do_bet whose stake exceeds the balance returns
\* BetError::InsufficientBalance to Game::bet and the process keeps running.
C2_InsufficientBalanceReturned ==
    ( /\ site \in CodeSites
      /\ pc \in {"returned", "crashed"}
      /\ sent # NoValue
      /\ use_fake_betting \/ reply.body = "bet"
      /\ sent.stake > Bankroll(site, balance, stratBalance) )
    => (pc = "returned" /\ ret = Err("InsufficientBalance"))

\* C3: the stake of a request in flight is at most the bankroll and at
\* least the currency's minimum bet.
C3_StakeWithinBankroll ==
    (site \in CodeSites /\ pc = "await") =>
        /\ sent.stake <= Bankroll(site, balance, stratBalance)
        /\ sent.stake >= SiteMinBet(site)

\* C4: Game::bet and main route the result of do_bet: EmptyReply leaves the
\* callbacks uncalled and prediction and confidence unchanged and the loop
\* goes on; any other error ends main with that error; a halted main takes
\* no further step.
C4_ErrorRouting ==
    [][ /\ pc # "halted"
        /\ (pc = "returned" /\ ret = Err("EmptyReply")) =>
              /\ pc' = "loop"
              /\ onWinCalls' = onWinCalls /\ onLoseCalls' = onLoseCalls
              /\ prediction' = prediction /\ confidence' = confidence
              /\ haltErr' = "none"
        /\ (pc = "returned" /\ ret.kind = "Err" /\ ret # Err("EmptyReply")) =>
              /\ pc' = "halted"
              /\ haltErr' = ret.err ]_vars

C4_Witness ==
    /\ pc = "halted"
    /\ haltErr = "Failed"
    /\ rolls >= okCount + 2

\* C5: a bet answered with HTTP 429 does not end the loop.
C5_RateLimitRecoverable ==
    (site \in CodeSites /\ reply.status = 429) => pc \notin {"halted", "crashed"}

\* C6: handle_rate_limit and the three client methods: 429 with a
\* retry-after that parses as an unsigned n gives RateLimitError(n), 429
\* without one gives RateLimitError(60), no other status gives a
\* RateLimitError, and a 429 is never an ApiError.
RECURSIVE Pow10(_)
Pow10(n) == IF n = 0 THEN 1 ELSE 10 * Pow10(n - 1)

RECURSIVE DecimalSum(_, _)
DecimalSum(t, i) ==
    IF i > Len(t) THEN 0
    ELSE DigitValue(t[i]) * Pow10(Len(t) - i) + DecimalSum(t, i + 1)

AllDigits(t) == t # << >> /\ \A i \in 1..Len(t) : t[i] \in Digits

UnsignedDigits(t) == IF t # << >> /\ t[1] = "+" THEN SubSeq(t, 2, Len(t)) ELSE t

C6_RateLimitParsing ==
    (apiOp # "none" /\ http.kind = "http") =>
        LET limited == http.status = 429
            ds == UnsignedDigits(http.header.text)
            parses == http.header.kind = "text" /\ AllDigits(ds)
        IN  /\ (limited /\ parses) => apiOut = RateLimitError(DecimalSum(ds, 1))
            /\ (limited /\ ~parses) => apiOut = RateLimitError(60)
            /\ (limited /\ http.header.kind = "text" /\ http.header.text = <<"4", "5">>)
                  => apiOut = RateLimitError(45)
            /\ ~limited => apiOut.kind # "RateLimitError"
            /\ limited => apiOut.kind # "ApiError"

C6_Witness ==
    /\ apiOp = "place_bet"
    /\ http.kind = "http"
    /\ http.status = 429
    /\ http.header = [kind |-> "text", text |-> <<"4", "5">>]
    /\ apiOut = RateLimitError(45)

\* C7: login is called once, no bet is placed before it returned Ok, and a
\* login error ends main with that error and without a bet.
C7_LoginPrecedesBetting ==
    /\ loginCalls <= 1
    /\ (rolls > 0 \/ sent # NoValue \/ outstanding > 0) =>
          (loginCalls = 1 /\ loginRet.kind = "Ok")
    /\ loginRet.kind = "Err" =>
          (pc = "halted" /\ haltErr = loginRet.err /\ rolls = 0 /\ okCount = 0)

C7_Witness ==
    /\ loginCalls = 1
    /\ loginRet.kind = "Ok"
    /\ rolls > 1

\* C8: at most one bet request is outstanding, and while one is, every
\* earlier result has been given to on_win or on_lose.
C8_SequentialBetting ==
    /\ outstanding \in {0, 1}
    /\ outstanding = 1 <=> pc = "await"
    /\ pc \in {"await", "loop"} => Settled = okCount

C8_Witness ==
    /\ pc = "await"
    /\ outstanding = 1
    /\ okCount >= 2
    /\ Settled = okCount

C10_DecisionClamped ==
    (site \in CodeSites /\ pc = "await") =>
        LET decided == IF Len(history) < HistorySize THEN 200 ELSE decision.mult
        IN  /\ sent.mult = Clamp(decided, SiteMinMultiplier(site), SiteMaxMultiplier(site))
            /\ sent.stake >= SiteMinBet(site)

\* C11: outside the step between do_bet's return and the callback, every
\* result in the history of an adapter has been given to on_win or on_lose
\* and comes from a do_bet call that returned Ok.
C11_NoUnsettledInHistory ==
    (site \in CodeSites /\ pc # "returned") =>
        \A i \in 1..Len(history) :
            /\ history[i] <= Settled
            /\ history[i] <= okCount

\* C12: two calls of the same roll function on the same server seed, client
\* seed and nonce return the same number.
C12_RollDeterminism ==
    \A i, j \in 1..Len(rollOut) :
        (rollOut[i].fn = rollOut[j].fn) => rollOut[i].number = rollOut[j].number

\* the value of the k-th window of 5 hex digits (k = 0 is offset 0)
WindowValue(hash, k) ==
    LET d(i) == hash[WindowLen * k + i]
    IN  65536 * d(1) + 4096 * d(2) + 256 * d(3) + 16 * d(4) + d(5)

WindowIndices(hash) == 0..((Len(hash) \div WindowLen) - 1)

\* the first window, left to right, whose value is at most limit; -1 if none
FirstWindowUpTo(hash, limit) ==
    LET ok == {k \in WindowIndices(hash) : WindowValue(hash, k) <= limit}
    IN  IF ok = {} THEN -1 ELSE CHOOSE k \in ok : \A j \in ok : k <= j

ScanRuns == {i \in 1..Len(rollOut) : rollOut[i].fn = "scan"}

\* C13 (as stated): the roll of a digest is v mod 10000 for v the first
\* window whose value is below 0x100000 (1,048,576).
C13_FirstWindowBelowHexLimit ==
    \A i \in ScanRuns :
        LET k == FirstWindowUpTo(rollIn.digest, 1048575)
        IN  /\ k >= 0
            /\ rollOut[i].number = Ok(WindowValue(rollIn.digest, k) % 10000)

\* C13 (amended): the roll of a digest is v mod 10000 for v the first window,
\* at offsets 0, 5, 10, ..., whose value is at most 1,000,000 (decimal), and
\* lies in [0, 10000); a digest none of whose 25 windows is that small makes
\* the scan panic.
C13_RejectionSampling ==
    \A i \in ScanRuns :
        LET k == FirstWindowUpTo(rollIn.digest, 1000000)
        IN  IF k < 0 THEN rollOut[i].number = Panic
            ELSE /\ rollOut[i].number = Ok(WindowValue(rollIn.digest, k) % 10000)
                 /\ rollOut[i].number.res \in 0..9999

C13_Witness ==
    /\ ScanRuns # {}
    /\ WindowValue(rollIn.digest, 0) = 1000001
    /\ WindowValue(rollIn.digest, 1) = 1000000
    /\ rollOut[1] = [fn |-> "scan", number |-> Ok(0)]

\* C14: the number a simulated bet reveals was generated from a server seed
\* whose SHA-256 hash an earlier response had already returned.
C14_CommitBeforeUse ==
    revealed # NoValue =>
        /\ revealed.seed # NoSeed
        /\ Sha256Hex(revealed.seed) \in revealed.before

\* C15: a roll of the simulated site generates a server seed exactly when
\* the nonce is 0, which is at the first roll and at the first roll after a
\* reset_server_seed; otherwise it keeps the seed and uses the previous
\* nonce plus 1; no (server_seed, nonce) pair is used by two rolls.
C15_SeedNonceLifecycle ==
    /\ \A i \in 1..Len(rollLog) :
          /\ rollLog[i].generated <=> rollLog[i].nonce = 0
          /\ rollLog[i].nonce = 0 <=>
                (i = 1 \/ rollLog[i].resets > rollLog[i - 1].resets)
          /\ (i > 1 /\ ~rollLog[i].generated) =>
                /\ rollLog[i].seed = rollLog[i - 1].seed
                /\ rollLog[i].nonce = rollLog[i - 1].nonce + 1
    /\ \A i, j \in 1..Len(rollLog) :
          (rollLog[i].seed = rollLog[j].seed /\ rollLog[i].nonce = rollLog[j].nonce)
              => i = j

C15_Witness ==
    /\ Len(rollLog) = 5
    /\ rollLog[1].seed = rollLog[3].seed
    /\ rollLog[3].nonce = 2
    /\ rollLog[4].nonce = 0
    /\ rollLog[4].seed # rollLog[3].seed
    /\ rollLog[5].nonce = 1

\* the value of a hex digit, upper or lower case; -1 for any other character
HexDigitValue(c) ==
    LET lower == <<"0", "1", "2", "3", "4", "5", "6", "7", "8", "9",
                   "a", "b", "c", "d", "e", "f">>
        upper == <<"0", "1", "2", "3", "4", "5", "6", "7", "8", "9",
                   "A", "B", "C", "D", "E", "F">>
        at == {i \in 1..16 : lower[i] = c \/ upper[i] = c}
    IN  IF at = {} THEN -1 ELSE (CHOOSE i \in at : TRUE) - 1

\* bits[from + 1 .. from + 4] read as a nibble, most significant bit first
Nibble(bits, from) ==
    8 * bits[from + 1] + 4 * bits[from + 2] + 2 * bits[from + 3] + bits[from + 4]

\* C16: hex_string_to_binary_vec turns n characters into 4n bits, and the
\* k-th group of four bits, read most significant bit first, is the value
\* of the k-th character whenever that character is a hex digit.
C16_HexRoundTrip ==
    "hex" \in encOut.done =>
        /\ Len(encOut.hex) = 4 * Len(encIn.text)
        /\ \A p \in 1..Len(encOut.hex) : encOut.hex[p] \in {0, 1}
        /\ \A k \in 1..Len(encIn.text) :
              HexDigitValue(encIn.text[k]) >= 0 =>
                  Nibble(encOut.hex, 4 * (k - 1)) = HexDigitValue(encIn.text[k])

C16_Witness ==
    /\ "hex" \in encOut.done
    /\ Len(encIn.text) = 64
    /\ Len(encOut.hex) = 256
    /\ SubSeq(encOut.hex, 1, 8) = <<1, 0, 1, 0, 1, 1, 1, 1>>

\* the four bits of the k-th character of a field, zero past its end
FieldBit(field, q) ==
    LET k == (q \div 4) + 1
        v == IF k > Len(field) \/ HexDigitValue(field[k]) < 0 THEN 0
             ELSE HexDigitValue(field[k])
    IN  <<v \div 8, (v \div 4) % 2, (v \div 2) % 2, v % 2>>[(q % 4) + 1]

\* the number whose bits, least significant first, are bits[from + 1 ..
\* from + 32]
RECURSIVE NumberOfBits(_, _, _)
NumberOfBits(bits, from, i) ==
    IF i > 32 THEN 0 ELSE bits[from + i] + 2 * NumberOfBits(bits, from, i + 1)

\* the layout of the n-th entry e inside the bit vector bits
EntryLayout(bits, n, e) ==
    LET base == 1024 * (n - 1)
    IN  /\ \A q \in 0..255 : bits[base + q + 1] = FieldBit(e.hash_next_roll, q)
        /\ \A q \in 0..255 : bits[base + 256 + q + 1] = FieldBit(e.hash_previous_roll, q)
        /\ \A q \in 0..255 : bits[base + 512 + q + 1] = FieldBit(e.client_seed, q)
        /\ NumberOfBits(bits, base + 768, 1) = e.nonce
        /\ \A q \in 800..1023 : bits[base + q + 1] = 0

EncodedLayout(bits, h) ==
    /\ Len(bits) = 1024 * Len(h)
    /\ \A n \in 1..Len(h) : EntryLayout(bits, n, h[n])

\* C17: every history entry encodes to 1024 bits: hash_next_roll from
\* offset 0, hash_previous_roll from 256, client_seed from 512, the 32
\* nonce bits least significant first from 768, zeros elsewhere, whatever
\* the lengths of the fields; the encoder of Game::bet and the one of
\* BetBatcher::batch return the same bits, and encoding leaves its input
\* unchanged.
C17_FeatureLayout ==
    /\ [](/\ "game" \in encOut.done => EncodedLayout(encOut.game, encIn.history)
          /\ "batch" \in encOut.done => EncodedLayout(encOut.batch, encIn.history)
          /\ {"game", "batch"} \subseteq encOut.done => encOut.game = encOut.batch)
    /\ [][encIn' = encIn]_vars

C17_Witness ==
    /\ {"game", "batch"} \subseteq encOut.done
    /\ Len(encIn.history) = 2
    /\ Len(encIn.history[1].hash_next_roll) = 65
    /\ Len(encIn.history[1].client_seed) = 70
    /\ encIn.history[1].nonce = 2147483647
    /\ Len(encOut.game) = 2048
    /\ encOut.game = encOut.batch

\* C18: the predictor runs at most once per iteration, and exactly in the
\* iterations whose do_bet returned Ok with a history of at least
\* history_size results; prediction and confidence change only then and
\* are 0 until the first run; do_bet is called with the pair as it stands.
C18_PredictorConsultation ==
    /\ [](/\ predictorCalls = 0 => (prediction = 0 /\ confidence = 0)
          /\ pc \in {"await", "returned"} =>
                args = [prediction |-> prediction, confidence |-> confidence])
    /\ [][ /\ predictorCalls' \in {predictorCalls, predictorCalls + 1}
           /\ predictorCalls' = predictorCalls + 1 <=>
                 (pc = "returned" /\ ret.kind = "Ok" /\ Len(history) >= HistorySize)
           /\ predictorCalls' = predictorCalls =>
                 (prediction' = prediction /\ confidence' = confidence) ]_vars

C18_Witness ==
    /\ pc = "await"
    /\ predictorCalls = 2
    /\ okCount = HistorySize + 1
    /\ args = [prediction |-> 900, confidence |-> 90]

\* C19: validate returns Ok exactly for the configurations with one site
\* enabled whose credentials (the API key of DuckDice or CryptoGames, the
\* BTC address and the password of FreeBitco.in) are all non-empty.
C19_ConfigValidation ==
    validated # NoValue =>
        LET enabledSites == {n \in {"duck_dice", "crypto_games", "freebitcoin"} :
                                config[n].enabled}
            complete(n) == IF n = "freebitcoin"
                           THEN config[n].btc_address # "" /\ config[n].password # ""
                           ELSE config[n].api_key # ""
        IN  /\ validated.kind \in {"Ok", "Err"}
            /\ validated.kind = "Ok" <=>
                  (Cardinality(enabledSites) = 1 /\ \A n \in enabledSites : complete(n))

C19_Witness ==
    /\ validated = Ok(0)
    /\ config.freebitcoin = [enabled |-> TRUE, btc_address |-> "secret", password |-> "secret"]
    /\ config.duck_dice = [enabled |-> FALSE, api_key |-> ""]
    /\ config.crypto_games = [enabled |-> FALSE, api_key |-> ""]

\* C20: a bet answered with a malformed body (too few fields, a field that
\* is no number, JSON of another shape) makes do_bet return a ParseError
\* and does not end the process.
C20_MalformedReplyReturned ==
    ( /\ site \in CodeSites
      /\ reply.body \in {"fields_lt_22", "fields_22", "non_numeric", "other_json"}
      /\ pc \in {"returned", "crashed", "halted"} )
    => (pc # "crashed" /\ ret = Err("ParseError"))

\* a placeBet call is awaiting the answer of the DuckDice API
BetRequestInFlight ==
    jniCall.op = "placeBet" /\ jniCall.result = "pending"

\* C21: no placeBet increment is lost (total_bets and wins equal the calls
\* entered and the calls won since the last cleanup), wins never exceeds
\* total_bets, and STATE's lock is not held while a bet's network request is
\* in flight.
C21_LockDiscipline ==
    /\ appState.wins <= appState.total_bets
    /\ appState.total_bets = betCalls
    /\ appState.wins = wonCalls
    /\ BetRequestInFlight => lock = 0

\* C28: a placeBet call sends a request to the DuckDice API only while the
\* configured site is DuckDice: after a configure naming another site, or
\* after cleanup, placeBet runs in simulation mode.
C28_ClientOnlyForDuckDice ==
    /\ BetRequestInFlight => appState.site \in DuckDiceNames
    /\ (jniCall.op = "placeBet" /\ jniCall.before.site \notin DuckDiceNames)
           => jniCall.simulated

\* C29: a placeBet call that fails (the API request returned an error)
\* leaves total_bets, wins and the balance as they were before the call.
C29_FailedBetLeavesStatistics ==
    (jniCall.op = "placeBet" /\ jniCall.result = "failed")
        => /\ appState.total_bets = jniCall.before.total_bets
           /\ appState.wins = jniCall.before.wins
           /\ appState.balance = jniCall.before.balance
           /\ WinRate(appState) = WinRate(jniCall.before)

\* C22: every do_bet that returned Ok(r) is followed, before the next do_bet
\* starts, by exactly one callback on the adapter: on_win and not on_lose
\* when r.result is true, on_lose and not on_win when it is false; no other
\* step makes a callback.
C22_ExactlyOneCallback ==
    /\ [](pc \in {"loop", "await"} => onWinCalls + onLoseCalls = okCount)
    /\ [][ /\ (pc = "returned" /\ ret.kind = "Ok" /\ ret.res.result)
                 => (onWinCalls' = onWinCalls + 1 /\ onLoseCalls' = onLoseCalls)
           /\ (pc = "returned" /\ ret.kind = "Ok" /\ ~ret.res.result)
                 => (onLoseCalls' = onLoseCalls + 1 /\ onWinCalls' = onWinCalls)
           /\ ~(pc = "returned" /\ ret.kind = "Ok")
                 => (onWinCalls' = onWinCalls /\ onLoseCalls' = onLoseCalls) ]_vars

C22_Witness ==
    /\ pc = "loop"
    /\ onWinCalls >= 1
    /\ onLoseCalls >= 1
    /\ okCount = onWinCalls + onLoseCalls

\* C23: the scan over a digest terminates with a roll for every digest: one
\* of the complete 5-character windows of the 128-character string is
\* accepted, and the scan never reads past the end of the string.
C23_ScanFindsWindow ==
    \A i \in ScanRuns :
        /\ Len(rollIn.digest) = DigestLen
        /\ FirstWindowUpTo(rollIn.digest, LuckyLimit) \in WindowIndices(rollIn.digest)
        /\ rollOut[i].number # Panic

\* C24: CryptoGames forwards the outcome of a bet to the strategy (on_win or
\* on_lose of the strategy) if and only if that bet was sized by the
\* strategy's get_next_bet rather than by the warm-up defaults.
C24_StrategyFedOwnBets ==
    [][ (site = "CryptoGames" /\ pc = "returned" /\ ret.kind = "Ok")
           => /\ strategyFed' \in {strategyFed, strategyFed + 1}
              /\ strategyFed' = strategyFed + 1 <=> sizedBy = "strategy" ]_vars

\* C25: the hashes of consecutive simulated bets chain: for every bet after
\* the first, its hash_previous_roll is the hash_next_roll of the bet before
\* it, also when reset_server_seed ran between the two.
C25_HashChain ==
    Len(rollLog) >= 2 => revealed.hash_previous_roll = revealed.earlier

\* C26: every configuration that validate accepts leads main to construct
\* a site adapter and go on towards login(); start-up does not end with
\* the "No site enabled" failure.
C26_ValidatedConfigStarts ==
    (startup # NoValue /\ validated.kind = "Ok")
        => /\ startup.adapter # "none"
           /\ startup.outcome # "NoSiteEnabled"

\* C27: FreeBitcoIn::login ends with Err(LoginFailed), and never aborts, for
\* every login reply that is too short to hold the session fields: every
\* index it reads after the length check lies within the split reply.
C27_ShortLoginReplyFails ==
    (site = "FreeBitcoIn" /\ ~use_fake_betting /\ loginReply.kind = "form"
        /\ loginReply.fields < 5)
        => loginRet = Err("LoginFailed")

\* the balance login() left in user_stats: the one the site reported, or the
\* default when login() made no request
BalanceAtLogin ==
    IF loginReply = NoValue THEN FreeBitcoInDefaultBalance ELSE loginReply.balance

====
